---- MODULE Spec2Model ----
(***************************************************************************)
(* Model of the LeetCode spaced-repetition scheduler.                      *)
(*                                                                         *)
(*   server/index.js       the review store (SQLite tables questions and   *)
(*                         schedule) and its HTTP handlers                 *)
(*   client/src/App.jsx    the add-question form and the notes codec       *)
(*                                                                         *)
(* Text is a sequence of one-character strings, so that formatting and     *)
(* parsing are computed character by character.                            *)
(***************************************************************************)
EXTENDS Integers, Sequences, FiniteSets, TLC

VARIABLES
    questions,   \* table questions: row id = index; [title, created_at, notes]
    schedule,    \* table schedule: row id = index; [question_id, due_date, completed]
    resp,        \* the last request handled and the response sent for it
    pre,         \* both tables as they were when the last request arrived
    nToggles,    \* toggle requests handled so far
    nNotes,      \* notes writes handled so far
    gen,         \* schedule generator run on its own: [start, out]
    codec        \* notes codec run on its own: [phase, payload, raw, out]

vars == <<questions, schedule, resp, pre, nToggles, nNotes, gen, codec>>

storeVars == <<questions, schedule, resp, pre, nToggles, nNotes>>

(***************************************************************************)
(* Bounds of the model.                                                    *)
(***************************************************************************)
MaxItems == 1

MaxToggles == 2

MaxNotes == 1

MaxLen == 2

MaxRawLen == 3

(***************************************************************************)
(* Calendar dates: dayjs parsing, day arithmetic and formatting.           *)
(***************************************************************************)
DigitChars == <<"0", "1", "2", "3", "4", "5", "6", "7", "8", "9">>

DigitValue(c) == CHOOSE n \in 0..9 : DigitChars[n + 1] = c

IsLeapYear(y) == (y % 4 = 0 /\ y % 100 # 0) \/ y % 400 = 0

DaysInMonth(y, m) ==
    IF m = 2 THEN (IF IsLeapYear(y) THEN 29 ELSE 28)
    ELSE IF m \in {4, 6, 9, 11} THEN 30 ELSE 31

\* dayjs(startDate) for a 'YYYY-MM-DD' string: the local calendar date
ParseDate(s) ==
    [y |-> DigitValue(s[1]) * 1000 + DigitValue(s[2]) * 100
           + DigitValue(s[3]) * 10 + DigitValue(s[4]),
     m |-> DigitValue(s[6]) * 10 + DigitValue(s[7]),
     d |-> DigitValue(s[9]) * 10 + DigitValue(s[10])]

\* a day of month past the end of its month rolls into the following months
RECURSIVE Normalize(_, _, _)
Normalize(y, m, d) ==
    IF d <= DaysInMonth(y, m) THEN [y |-> y, m |-> m, d |-> d]
    ELSE IF m = 12 THEN Normalize(y + 1, 1, d - DaysInMonth(y, m))
    ELSE Normalize(y, m + 1, d - DaysInMonth(y, m))

\* a plausible bug: every month is taken to have 31 days
RECURSIVE NormalizeThirtyOne(_, _, _)
NormalizeThirtyOne(y, m, d) ==
    IF d <= 31 THEN [y |-> y, m |-> m, d |-> d]
    ELSE IF m = 12 THEN NormalizeThirtyOne(y + 1, 1, d - 31)
    ELSE NormalizeThirtyOne(y, m + 1, d - 31)

AddDaysThirtyOne(date, n) == NormalizeThirtyOne(date.y, date.m, date.d + n)

\* currentDate.add(n, 'day'): the day of month is set to d + n
AddDays(date, n) == Normalize(date.y, date.m, date.d + n)

\* the decimal digit of n at the given place (1, 10, 100, 1000)
DigitAt(n, place) == DigitChars[((n \div place) % 10) + 1]

\* date.format('YYYY-MM-DD')
FormatDate(date) ==
    << DigitAt(date.y, 1000), DigitAt(date.y, 100), DigitAt(date.y, 10), DigitAt(date.y, 1),
       "-", DigitAt(date.m, 10), DigitAt(date.m, 1),
       "-", DigitAt(date.d, 10), DigitAt(date.d, 1) >>

(***************************************************************************)
(* Schedule generator.                                                     *)
(***************************************************************************)
INTERVALS == <<1, 3, 6, 12, 24, 48>>

\* a plausible bug: every interval is added to the start date, not to the cursor
RECURSIVE InsertLoopFromStart(_, _, _, _, _)
InsertLoopFromStart(rows, questionId, currentDate, i, failAt) ==
    IF i > Len(INTERVALS) THEN [rows |-> rows, threw |-> FALSE]
    ELSE IF i = failAt THEN [rows |-> rows, threw |-> TRUE]
    ELSE InsertLoopFromStart(
             Append(rows, [question_id |-> questionId,
                           due_date |-> FormatDate(AddDays(currentDate, INTERVALS[i])),
                           completed |-> 0]),
             questionId, currentDate, i + 1, failAt)

\* the for loop of generateSchedule from its i-th interval on; the insert of
\* the failAt-th row throws (failAt = 0: no insert throws)
RECURSIVE InsertLoop(_, _, _, _, _)
InsertLoop(rows, questionId, currentDate, i, failAt) ==
    IF i > Len(INTERVALS) THEN [rows |-> rows, threw |-> FALSE]
    ELSE IF i = failAt THEN [rows |-> rows, threw |-> TRUE]
    ELSE LET next == AddDays(currentDate, INTERVALS[i])
         IN  InsertLoop(
                 Append(rows, [question_id |-> questionId,
                               due_date |-> FormatDate(next),
                               completed |-> 0]),
                 questionId, next, i + 1, failAt)

\* db.transaction: the rows of a loop that threw are rolled back
generateSchedule(rows, questionId, startDate, failAt) ==
    LET r == InsertLoop(rows, questionId, ParseDate(startDate), 1, failAt)
    IN  IF r.threw THEN [rows |-> rows, threw |-> TRUE]
        ELSE [rows |-> r.rows, threw |-> FALSE]

(***************************************************************************)
(* JavaScript values and JSON text, as the notes codec uses them.          *)
(* A value is [t, s, kids]: t its type, s the text of a string or the      *)
(* lexeme of a number, kids the elements of an array or the [k, v]         *)
(* members of an object.                                                   *)
(***************************************************************************)
JsValue(t, s, kids) == [t |-> t, s |-> s, kids |-> kids]

Str(text) == JsValue("str", text, <<>>)

Undefined == JsValue("undefined", <<>>, <<>>)

\* characters with no printable form, named by their code point
SOH == "<U+0001>"

BS == "<U+0008>"

FF == "<U+000C>"

ControlChars == {SOH, BS, FF, "\t", "\n", "\r"}

JsonWhitespace == {" ", "\t", "\n", "\r"}

HexDigits == <<"0", "1", "2", "3", "4", "5", "6", "7", "8", "9",
               "a", "b", "c", "d", "e", "f">>

UpperHexDigits == <<"0", "1", "2", "3", "4", "5", "6", "7", "8", "9",
                    "A", "B", "C", "D", "E", "F">>

IsHexDigit(c) ==
    \E n \in 1..16 : HexDigits[n] = c \/ UpperHexDigits[n] = c

HexValue(c) ==
    (CHOOSE n \in 1..16 : HexDigits[n] = c \/ UpperHexDigits[n] = c) - 1

\* the characters of the model by code point; any other code point is one
\* further character
CharOfCode(n) ==
    CASE n = 1 -> SOH
      [] n = 8 -> BS
      [] n = 9 -> "\t"
      [] n = 10 -> "\n"
      [] n = 12 -> FF
      [] n = 13 -> "\r"
      [] n = 32 -> " "
      [] n = 34 -> "\""
      [] n = 49 -> "1"
      [] n = 92 -> "\\"
      [] n = 97 -> "a"
      [] n = 123 -> "{"
      [] OTHER -> "<U+other>"

IsDigit(c) == \E n \in 1..10 : DigitChars[n] = c

\* a plausible bug: quotes are escaped and backslashes are not
EscapeCharQuoteOnly(c) ==
    IF c = "\"" THEN <<"\\", "\"">> ELSE <<c>>

\* JSON.stringify's escape of one character of a string
EscapeChar(c) ==
    CASE c = "\"" -> <<"\\", "\"">>
      [] c = "\\" -> <<"\\", "\\">>
      [] c = "\n" -> <<"\\", "n">>
      [] c = "\t" -> <<"\\", "t">>
      [] c = "\r" -> <<"\\", "r">>
      [] c = BS -> <<"\\", "b">>
      [] c = FF -> <<"\\", "f">>
      [] c = SOH -> <<"\\", "u", "0", "0", "0", "1">>
      [] OTHER -> <<c>>

RECURSIVE EscapeAll(_)
EscapeAll(text) ==
    IF text = <<>> THEN <<>> ELSE EscapeChar(Head(text)) \o EscapeAll(Tail(text))

\* JSON.stringify of a string
Quote(text) == <<"\"">> \o EscapeAll(text) \o <<"\"">>

BruteForceKey == <<"b", "r", "u", "t", "e", "F", "o", "r", "c", "e">>

OptimizedKey == <<"o", "p", "t", "i", "m", "i", "z", "e", "d">>

\* JSON.stringify(notesData) for notesData = {bruteForce, optimized}, two strings
JSONstringify(notesData) ==
    <<"{">> \o Quote(BruteForceKey) \o <<":">> \o Quote(notesData.bruteForce)
        \o <<",">> \o Quote(OptimizedKey) \o <<":">> \o Quote(notesData.optimized)
        \o <<"}">>

(***************************************************************************)
(* JSON.parse: a result is [ok, v, next], next the index after the value.  *)
(***************************************************************************)
SyntaxError == [ok |-> FALSE, v |-> Undefined, next |-> 0]

Parsed(v, next) == [ok |-> TRUE, v |-> v, next |-> next]

At(t, i) == IF i \in 1..Len(t) THEN t[i] ELSE "<end>"

RECURSIVE SkipWs(_, _)
SkipWs(t, i) == IF At(t, i) \in JsonWhitespace THEN SkipWs(t, i + 1) ELSE i

RECURSIVE SkipDigits(_, _)
SkipDigits(t, i) == IF IsDigit(At(t, i)) THEN SkipDigits(t, i + 1) ELSE i

StartsWith(t, i, word) ==
    /\ i + Len(word) - 1 <= Len(t)
    /\ SubSeq(t, i, i + Len(word) - 1) = word

Unescape(c) ==
    CASE c = "b" -> BS
      [] c = "f" -> FF
      [] c = "n" -> "\n"
      [] c = "r" -> "\r"
      [] c = "t" -> "\t"
      [] OTHER -> c

\* the characters of a string from index j on, up to its closing quote
RECURSIVE ScanString(_, _, _)
ScanString(t, j, acc) ==
    LET c == At(t, j)
    IN  IF j > Len(t) \/ c \in ControlChars THEN SyntaxError
        ELSE IF c = "\"" THEN Parsed(Str(acc), j + 1)
        ELSE IF c = "\\"
        THEN LET e == At(t, j + 1)
             IN  IF j + 1 <= Len(t) /\ e \in {"\"", "\\", "/", "b", "f", "n", "r", "t"}
                 THEN ScanString(t, j + 2, Append(acc, Unescape(e)))
                 ELSE IF /\ e = "u"
                         /\ j + 5 <= Len(t)
                         /\ \A k \in (j + 2)..(j + 5) : IsHexDigit(t[k])
                 THEN ScanString(t, j + 6,
                          Append(acc, CharOfCode(HexValue(t[j + 2]) * 4096
                                                 + HexValue(t[j + 3]) * 256
                                                 + HexValue(t[j + 4]) * 16
                                                 + HexValue(t[j + 5]))))
                 ELSE SyntaxError
        ELSE ScanString(t, j + 1, Append(acc, c))

\* -? (0 | [1-9][0-9]*) (. [0-9]+)? ([eE] [+-]? [0-9]+)?
ParseNumber(t, i) ==
    LET a == IF At(t, i) = "-" THEN i + 1 ELSE i
        b == IF At(t, a) = "0" THEN a + 1 ELSE SkipDigits(t, a)
        fracOk == At(t, b) = "." => IsDigit(At(t, b + 1))
        c == IF At(t, b) = "." THEN SkipDigits(t, b + 1) ELSE b
        s == IF At(t, c + 1) \in {"+", "-"} THEN c + 2 ELSE c + 1
        expOk == At(t, c) \in {"e", "E"} => IsDigit(At(t, s))
        d == IF At(t, c) \in {"e", "E"} THEN SkipDigits(t, s) ELSE c
    IN  IF IsDigit(At(t, a)) /\ fracOk /\ expOk
        THEN Parsed(JsValue("num", SubSeq(t, i, d - 1), <<>>), d)
        ELSE SyntaxError

RECURSIVE ParseValue(_, _)
RECURSIVE ParseElements(_, _, _)
RECURSIVE ParseMembers(_, _, _)

\* the elements of an array from index j on, up to its closing bracket
ParseElements(t, j, acc) ==
    LET r == ParseValue(t, j)
        k == SkipWs(t, r.next)
    IN  IF ~r.ok THEN SyntaxError
        ELSE IF At(t, k) = "," THEN ParseElements(t, k + 1, Append(acc, r.v))
        ELSE IF At(t, k) = "]" THEN Parsed(JsValue("arr", <<>>, Append(acc, r.v)), k + 1)
        ELSE SyntaxError

\* the members of an object from index j on, up to its closing brace
ParseMembers(t, j, acc) ==
    LET q == SkipWs(t, j)
        key == IF At(t, q) = "\"" THEN ScanString(t, q + 1, <<>>) ELSE SyntaxError
        colon == SkipWs(t, key.next)
        r == IF key.ok /\ At(t, colon) = ":" THEN ParseValue(t, colon + 1)
             ELSE SyntaxError
        k == SkipWs(t, r.next)
        members == Append(acc, [k |-> key.v.s, v |-> r.v])
    IN  IF ~r.ok THEN SyntaxError
        ELSE IF At(t, k) = "," THEN ParseMembers(t, k + 1, members)
        ELSE IF At(t, k) = "}" THEN Parsed(JsValue("obj", <<>>, members), k + 1)
        ELSE SyntaxError

\* one JSON value after optional whitespace
ParseValue(t, i) ==
    LET j == SkipWs(t, i)
        c == At(t, j)
    IN  IF c = "{"
        THEN IF At(t, SkipWs(t, j + 1)) = "}"
             THEN Parsed(JsValue("obj", <<>>, <<>>), SkipWs(t, j + 1) + 1)
             ELSE ParseMembers(t, j + 1, <<>>)
        ELSE IF c = "["
        THEN IF At(t, SkipWs(t, j + 1)) = "]"
             THEN Parsed(JsValue("arr", <<>>, <<>>), SkipWs(t, j + 1) + 1)
             ELSE ParseElements(t, j + 1, <<>>)
        ELSE IF c = "\"" THEN ScanString(t, j + 1, <<>>)
        ELSE IF c = "-" \/ IsDigit(c) THEN ParseNumber(t, j)
        ELSE IF StartsWith(t, j, <<"t", "r", "u", "e">>)
        THEN Parsed(JsValue("true", <<>>, <<>>), j + 4)
        ELSE IF StartsWith(t, j, <<"f", "a", "l", "s", "e">>)
        THEN Parsed(JsValue("false", <<>>, <<>>), j + 5)
        ELSE IF StartsWith(t, j, <<"n", "u", "l", "l">>)
        THEN Parsed(JsValue("null", <<>>, <<>>), j + 4)
        ELSE SyntaxError

\* JSON.parse(text): one value and nothing after it but whitespace
JSONparse(text) ==
    LET r == ParseValue(text, 1)
    IN  IF r.ok /\ SkipWs(text, r.next) = Len(text) + 1 THEN r ELSE SyntaxError

(***************************************************************************)
(* parseNotes.                                                             *)
(***************************************************************************)
\* value.key: the last member of that name of an object, undefined on any
\* other value but null, where the access throws
GetProperty(value, key) ==
    LET hits == {n \in DOMAIN value.kids : value.kids[n].k = key}
    IN  IF value.t # "obj" \/ hits = {} THEN Undefined
        ELSE value.kids[CHOOSE n \in hits : \A m \in hits : m <= n].v

\* the number a lexeme denotes is 0: every digit of its mantissa is 0
RECURSIVE IsZeroLexeme(_)
IsZeroLexeme(s) ==
    \/ s = <<>>
    \/ Head(s) \in {"e", "E"}
    \/ Head(s) \in {"-", ".", "0"} /\ IsZeroLexeme(Tail(s))

Truthy(value) ==
    CASE value.t = "str" -> value.s # <<>>
      [] value.t = "num" -> ~IsZeroLexeme(value.s)
      [] value.t \in {"true", "arr", "obj"} -> TRUE
      [] OTHER -> FALSE

\* value || ''
OrEmpty(value) == IF Truthy(value) THEN value ELSE Str(<<>>)

\* parseNotes: the try block covers JSON.parse and both property reads
parseNotes(notesString) ==
    IF notesString = <<>> THEN [bruteForce |-> Str(<<>>), optimized |-> Str(<<>>)]
    ELSE LET r == JSONparse(notesString)
         IN  IF ~r.ok \/ r.v.t = "null"
             THEN [bruteForce |-> Str(notesString), optimized |-> Str(<<>>)]
             ELSE [bruteForce |-> OrEmpty(GetProperty(r.v, BruteForceKey)),
                   optimized |-> OrEmpty(GetProperty(r.v, OptimizedKey))]

(***************************************************************************)
(* Review store: the SQL statements of the handlers.                       *)
(***************************************************************************)
\* a request field that may be missing from the body
Given(v) == [has |-> TRUE, val |-> v]

Missing(v) == [has |-> FALSE, val |-> v]

\* SQL NOT on the INTEGER column completed
SqlNot(c) == IF c = 0 THEN 1 ELSE 0

\* a plausible bug: the UPDATE has no WHERE clause and flips every review
UpdateCompletedEveryRow(rows, id) ==
    [i \in DOMAIN rows |-> [rows[i] EXCEPT !.completed = IF @ = 0 THEN 1 ELSE 0]]

\* a plausible bug: the review is marked done instead of flipped
UpdateCompletedSetDone(rows, id) ==
    [i \in DOMAIN rows |-> IF i = id THEN [rows[i] EXCEPT !.completed = 1] ELSE rows[i]]

\* UPDATE schedule SET completed = NOT completed WHERE id = ?
UpdateCompleted(rows, id) ==
    [i \in DOMAIN rows |->
        IF i = id THEN [rows[i] EXCEPT !.completed = SqlNot(@)] ELSE rows[i]]

\* UPDATE questions SET notes = ? WHERE id = ?, with the number of rows changed
UpdateNotes(rows, notes, id) ==
    [rows |-> [i \in DOMAIN rows |->
                  IF i = id THEN [rows[i] EXCEPT !.notes = notes] ELSE rows[i]],
     changes |-> Cardinality({i \in DOMAIN rows : i = id})]

\* notes || '' on the request's notes field
NotesOrEmpty(notes) == IF notes.has /\ notes.val # <<>> THEN notes.val ELSE <<>>

\* a plausible bug: the rows are grouped before the completed ones are left out
CalendarStatsGroupFirst(rows) ==
    {[due_date |-> d,
      count |-> Cardinality({i \in DOMAIN rows :
                                 rows[i].due_date = d /\ rows[i].completed = 0})] :
        d \in {rows[i].due_date : i \in DOMAIN rows}}

\* SELECT due_date, COUNT(*) as count FROM schedule WHERE completed = 0
\* GROUP BY due_date
CalendarStats(rows) ==
    LET open == {i \in DOMAIN rows : rows[i].completed = 0}
    IN  {[due_date |-> d,
          count |-> Cardinality({i \in open : rows[i].due_date = d})] :
            d \in {rows[i].due_date : i \in open}}

(***************************************************************************)
(* Inputs of the store's requests.                                         *)
(***************************************************************************)
\* titles posted to the API, and texts typed into the form
Titles == {"LC 43", "   "}

FormInputs == {"LC 43", "", "   "}

\* dayjs().format('YYYY-MM-DD') when the request arrives
Todays == {<<"2", "0", "2", "4", "-", "0", "1", "-", "0", "1">>}

NotesInputs == {Missing(<<>>), Given(<<>>), Given(<<"h", "i">>)}

\* 0: no write fails; 1: the INSERT into questions throws; 1 + k: the k-th
\* INSERT into schedule throws
Faults == 0..(Len(INTERVALS) + 1)

NoDate == <<>>

Response(op, status, id, title, today, notes, body) ==
    [op |-> op, status |-> status, id |-> id, title |-> title, today |-> today,
     notes |-> notes, body |-> body]

Tables == [questions |-> questions, schedule |-> schedule]

(***************************************************************************)
(* Handlers.                                                               *)
(***************************************************************************)
\* app.post('/api/questions'): a missing title is bound as NULL and the
\* INSERT throws on title TEXT NOT NULL
PostQuestions(title, today, fault) ==
    /\ Len(questions) < MaxItems
    /\ pre' = Tables
    /\ UNCHANGED <<nToggles, nNotes, gen, codec>>
    /\ IF ~title.has \/ fault = 1
       THEN /\ UNCHANGED <<questions, schedule>>
            /\ resp' = Response("createItem", 500, 0, title, today, Missing(<<>>), {})
       ELSE LET id == Len(questions) + 1
                r == generateSchedule(schedule, id, today,
                                      IF fault = 0 THEN 0 ELSE fault - 1)
            IN  /\ questions' = Append(questions,
                        [title |-> title.val, created_at |-> today, notes |-> <<>>])
                /\ schedule' = r.rows
                /\ resp' = Response("createItem", IF r.threw THEN 500 ELSE 200,
                                    id, title, today, Missing(<<>>), {})

\* handleSubmit of the form: nothing is sent for an empty input
HandleSubmit(newQuestion, today, fault) ==
    IF newQuestion = "" THEN UNCHANGED vars
    ELSE PostQuestions(Given(newQuestion), today, fault)

\* app.post('/api/schedule/:id/toggle')
PostToggle(id) ==
    /\ nToggles < MaxToggles
    /\ nToggles' = nToggles + 1
    /\ pre' = Tables
    /\ schedule' = UpdateCompleted(schedule, id)
    /\ resp' = Response("toggle", 200, id, Missing(""), NoDate, Missing(<<>>), {})
    /\ UNCHANGED <<questions, nNotes, gen, codec>>

\* app.get('/api/calendar-stats')
GetCalendarStats ==
    /\ pre' = Tables
    /\ resp' = Response("calendarStats", 200, 0, Missing(""), NoDate, Missing(<<>>),
                        CalendarStats(schedule))
    /\ UNCHANGED <<questions, schedule, nToggles, nNotes, gen, codec>>

\* app.put('/api/questions/:id/notes') as first defined: no check of the
\* number of rows changed
PutNotesFirst(id, notes) ==
    /\ nNotes < MaxNotes
    /\ nNotes' = nNotes + 1
    /\ pre' = Tables
    /\ questions' = UpdateNotes(questions, NotesOrEmpty(notes), id).rows
    /\ resp' = Response("setNotes", 200, id, Missing(""), NoDate, notes, {})
    /\ UNCHANGED <<schedule, nToggles, gen, codec>>

\* app.put('/api/questions/:id/notes') as defined again: 404 when no row changed
PutNotes(id, notes) ==
    /\ nNotes < MaxNotes
    /\ nNotes' = nNotes + 1
    /\ pre' = Tables
    /\ LET result == UpdateNotes(questions, NotesOrEmpty(notes), id)
       IN  /\ questions' = result.rows
           /\ resp' = Response("setNotes", IF result.changes = 0 THEN 404 ELSE 200,
                               id, Missing(""), NoDate, notes, {})
    /\ UNCHANGED <<schedule, nToggles, gen, codec>>

(***************************************************************************)
(* The store's specification.                                              *)
(***************************************************************************)
GenIdle == [start |-> NoDate, out |-> <<>>]

NoNotes == [bruteForce |-> Str(<<>>), optimized |-> Str(<<>>)]

CodecIdle == [phase |-> "idle", payload |-> [bruteForce |-> <<>>, optimized |-> <<>>],
              raw |-> <<>>, out |-> NoNotes]

Init ==
    /\ questions = <<>>
    /\ schedule = <<>>
    /\ resp = Response("none", 0, 0, Missing(""), NoDate, Missing(<<>>), {})
    /\ pre = [questions |-> <<>>, schedule |-> <<>>]
    /\ nToggles = 0
    /\ nNotes = 0
    /\ gen = GenIdle
    /\ codec = CodecIdle

CreateItem ==
    \E t \in Titles, today \in Todays, fault \in Faults :
        PostQuestions(Given(t), today, fault)

CreateItemNoTitle ==
    \E today \in Todays : PostQuestions(Missing(""), today, 0)

\* the form posts to the same handler; write failures are drawn by CreateItem
SubmitForm ==
    \E t \in FormInputs, today \in Todays : HandleSubmit(t, today, 0)

ToggleReview == \E id \in 1..(Len(schedule) + 1) : PostToggle(id)

SetNotes == \E id \in 1..(Len(questions) + 1), n \in NotesInputs : PutNotes(id, n)

SetNotesFirst ==
    \E id \in 1..(Len(questions) + 1), n \in NotesInputs : PutNotesFirst(id, n)

Next ==
    \/ CreateItem
    \/ CreateItemNoTitle
    \/ SubmitForm
    \/ ToggleReview
    \/ GetCalendarStats
    \/ SetNotes
    \/ SetNotesFirst

Spec == Init /\ [][Next]_vars

(***************************************************************************)
(* The schedule generator on its own, over every day of a few years.       *)
(***************************************************************************)
GenYears == {2000, 2023, 2024, 2100}

GenDates ==
    UNION {{[y |-> y, m |-> m, d |-> d] : d \in 1..DaysInMonth(y, m)} :
              y \in GenYears, m \in 1..12}

GenInit ==
    /\ questions = <<>>
    /\ schedule = <<>>
    /\ resp = Response("none", 0, 0, Missing(""), NoDate, Missing(<<>>), {})
    /\ pre = [questions |-> <<>>, schedule |-> <<>>]
    /\ nToggles = 0
    /\ nNotes = 0
    /\ codec = CodecIdle
    /\ \E date \in GenDates : gen = [start |-> FormatDate(date), out |-> <<>>]

Generate ==
    /\ gen.out = <<>>
    /\ gen' = [gen EXCEPT !.out = generateSchedule(<<>>, 1, gen.start, 0).rows]
    /\ UNCHANGED <<storeVars, codec>>

GenNext == Generate

GenSpec == GenInit /\ [][GenNext]_vars

(***************************************************************************)
(* Definitions the properties are stated with.                             *)
(***************************************************************************)
\* the number of the day (y, m, d), counted with the year starting in March
DayNumber(date) ==
    LET a  == IF date.m <= 2 THEN 1 ELSE 0
        yy == date.y - a
        mm == date.m + 12 * a - 3
    IN  365 * yy + (yy \div 4) - (yy \div 100) + (yy \div 400)
          + ((153 * mm + 2) \div 5) + date.d - 1

IsCalendarDate(date) ==
    /\ date.m \in 1..12
    /\ date.d \in 1..DaysInMonth(date.y, date.m)

CumulativeOffsets == <<1, 4, 10, 22, 46, 94>>

ReviewsOf(rows, q) == {i \in DOMAIN rows : rows[i].question_id = q}

OpenCount(rows, d) ==
    Cardinality({i \in DOMAIN rows : rows[i].due_date = d /\ rows[i].completed = 0})

DueDates(rows) == {rows[i].due_date : i \in DOMAIN rows}

StatDates(stats) == {r.due_date : r \in stats}

BlankTitles == {"", "   "}

Jan01 == <<"2", "0", "2", "4", "-", "0", "1", "-", "0", "1">>

\* the rows the last request appended to schedule
NewReviews == SubSeq(schedule, Len(pre.schedule) + 1, Len(schedule))

CreatedLC43 ==
    /\ resp.op = "createItem"
    /\ resp.status = 200
    /\ resp.title = Given("LC 43")
    /\ resp.today = Jan01

(***************************************************************************)
(* C1: after any createItem attempt, with or without a failing write,      *)
(* every Item row has all 6 of its ScheduledReview rows: an Item with      *)
(* fewer reviews is never observable.                                      *)
(***************************************************************************)
C1_CreateAllOrNothing ==
    \A q \in DOMAIN questions :
        Cardinality(ReviewsOf(schedule, q)) = Len(INTERVALS)

(***************************************************************************)
(* C2: for every creation date d the generator emits exactly 6 due dates,  *)
(* in order d+1, d+4, d+10, d+22, d+46 and d+94 days.                      *)
(***************************************************************************)
C2_CumulativeSchedule ==
    gen.out # <<>> =>
        /\ Len(gen.out) = 6
        /\ \A i \in 1..Len(gen.out) :
              LET due == ParseDate(gen.out[i].due_date)
              IN  /\ IsCalendarDate(due)
                  /\ FormatDate(due) = gen.out[i].due_date
                  /\ DayNumber(due)
                       = DayNumber(ParseDate(gen.start)) + CumulativeOffsets[i]

C2_Witness ==
    /\ gen.out # <<>>
    /\ gen.start = <<"2", "0", "2", "3", "-", "1", "2", "-", "1", "5">>

(***************************************************************************)
(* C3, as amended: creating "LC 43" on 2024-01-01 persists reviews due on  *)
(* 2024-01-02, 2024-01-05, 2024-01-11, 2024-01-23, 2024-02-16 and          *)
(* 2024-04-04, every one with completed = false.                           *)
(***************************************************************************)
C3_LC43Reviews ==
    CreatedLC43 =>
        /\ [i \in 1..Len(NewReviews) |-> NewReviews[i].due_date]
             = << <<"2", "0", "2", "4", "-", "0", "1", "-", "0", "2">>,
                  <<"2", "0", "2", "4", "-", "0", "1", "-", "0", "5">>,
                  <<"2", "0", "2", "4", "-", "0", "1", "-", "1", "1">>,
                  <<"2", "0", "2", "4", "-", "0", "1", "-", "2", "3">>,
                  <<"2", "0", "2", "4", "-", "0", "2", "-", "1", "6">>,
                  <<"2", "0", "2", "4", "-", "0", "4", "-", "0", "4">> >>
        /\ \A i \in 1..Len(NewReviews) :
              NewReviews[i].completed = 0 /\ NewReviews[i].question_id = resp.id

C3_Witness == CreatedLC43 /\ Len(schedule) = Len(INTERVALS)

\* C3 as claimed: the reviews are due on 2024-01-02, 2024-01-04, 2024-01-10,
\* 2024-01-22, 2024-02-16 and 2024-03-19, every one with completed = false.
C3_LC43ReviewsAsClaimed ==
    CreatedLC43 =>
        /\ [i \in 1..Len(NewReviews) |-> NewReviews[i].due_date]
             = << <<"2", "0", "2", "4", "-", "0", "1", "-", "0", "2">>,
                  <<"2", "0", "2", "4", "-", "0", "1", "-", "0", "4">>,
                  <<"2", "0", "2", "4", "-", "0", "1", "-", "1", "0">>,
                  <<"2", "0", "2", "4", "-", "0", "1", "-", "2", "2">>,
                  <<"2", "0", "2", "4", "-", "0", "2", "-", "1", "6">>,
                  <<"2", "0", "2", "4", "-", "0", "3", "-", "1", "9">> >>
        /\ \A i \in 1..Len(NewReviews) : NewReviews[i].completed = 0

(***************************************************************************)
(* C4: createItem with an empty or whitespace-only title fails and adds    *)
(* no rows: both tables are as they were before the call.                  *)
(***************************************************************************)
C4_BlankTitleRejected ==
    (resp.op = "createItem" /\ resp.title.has /\ resp.title.val \in BlankTitles) =>
        /\ resp.status # 200
        /\ Len(questions) = Len(pre.questions)
        /\ Len(schedule) = Len(pre.schedule)

(***************************************************************************)
(* C5: toggleReview with an id that matches no ScheduledReview reports     *)
(* not-found, an outcome distinct from success, and changes no row.        *)
(***************************************************************************)
C5_ToggleMissingNotFound ==
    (resp.op = "toggle" /\ resp.id \notin DOMAIN pre.schedule) =>
        /\ resp.status # 200
        /\ Tables = pre

(***************************************************************************)
(* C6: setNotes with an itemId that matches no Item reports not-found and  *)
(* changes no row; with an existing itemId it overwrites that Item's notes *)
(* with rawText (the empty string when absent) and reports success.        *)
(***************************************************************************)
C6_SetNotesOutcome ==
    resp.op = "setNotes" =>
        IF resp.id \in DOMAIN pre.questions
        THEN /\ resp.status = 200
             /\ questions = [pre.questions EXCEPT ![resp.id].notes =
                                 IF resp.notes.has THEN resp.notes.val ELSE <<>>]
             /\ schedule = pre.schedule
        ELSE /\ resp.status = 404
             /\ Tables = pre

C8_ToggleInvolution ==
    [][ /\ (nToggles' = nToggles + 1 /\ resp'.id \in DOMAIN schedule) =>
              /\ schedule'[resp'.id].completed # schedule[resp'.id].completed
              /\ schedule'[resp'.id].completed \in {0, 1}
              /\ schedule' = [schedule EXCEPT ![resp'.id].completed =
                                  schedule'[resp'.id].completed]
              /\ questions' = questions
        /\ (nToggles' = nToggles + 1 /\ resp.op = "toggle" /\ resp'.id = resp.id) =>
              /\ questions' = pre.questions
              /\ schedule' = pre.schedule ]_vars

C8_Witness ==
    /\ resp.op = "toggle"
    /\ resp.id \in DOMAIN schedule
    /\ nToggles = 2
    /\ pre.schedule[resp.id].completed = 1
    /\ \A i \in DOMAIN schedule : schedule[i].completed = 0

(***************************************************************************)
(* The notes codec on its own: a payload typed into the two text areas is  *)
(* saved and parsed again, and a note already stored is parsed.            *)
(***************************************************************************)
Texts(alphabet, n) == UNION {[1..k -> alphabet] : k \in 0..n}

PayloadAlphabet == {"a", "\"", "\\", "{", "\n", SOH}

\* texts that are JSON themselves
JsonLookalikes ==
    {JSONstringify([bruteForce |-> <<"a">>, optimized |-> <<>>]),
     <<"n", "u", "l", "l">>, <<"1">>, <<"[", "]">>}

PayloadTexts == Texts(PayloadAlphabet, MaxLen) \cup JsonLookalikes

RawAlphabet == {"a", "1", "0", "\"", "[", "]", "{", "}", " "}

StoredNotes ==
    Texts(RawAlphabet, MaxRawLen)
        \cup JsonLookalikes
        \cup {<<"t", "r", "u", "e">>, <<"f", "a", "l", "s", "e">>,
              <<"p", "l", "a", "i", "n", " ", "t", "e", "x", "t">>,
              <<"{", "\"", "o", "p", "t", "i", "m", "i", "z", "e", "d", "\"", ":",
                "\"", "a", "\"", "}">>,
              <<"{", "\"", "b", "r", "u", "t", "e", "F", "o", "r", "c", "e", "\"", ":",
                "1", "}">>}

CodecInit ==
    /\ questions = <<>>
    /\ schedule = <<>>
    /\ resp = Response("none", 0, 0, Missing(""), NoDate, Missing(<<>>), {})
    /\ pre = [questions |-> <<>>, schedule |-> <<>>]
    /\ nToggles = 0
    /\ nNotes = 0
    /\ gen = GenIdle
    /\ \/ \E b \in PayloadTexts, o \in PayloadTexts :
              codec = [CodecIdle EXCEPT !.phase = "editing",
                                        !.payload = [bruteForce |-> b, optimized |-> o]]
       \/ \E raw \in StoredNotes :
              codec = [CodecIdle EXCEPT !.phase = "stored", !.raw = raw]

\* saveNotes: notesString = JSON.stringify(notesData)
SaveNotes ==
    /\ codec.phase = "editing"
    /\ codec' = [codec EXCEPT !.phase = "saved", !.raw = JSONstringify(codec.payload)]
    /\ UNCHANGED <<storeVars, gen>>

\* parseNotes on the notes of a task: those just saved, or those stored before
ParseNotes ==
    /\ codec.phase \in {"saved", "stored"}
    /\ codec' = [codec EXCEPT !.phase = IF codec.phase = "saved" THEN "reparsed"
                                       ELSE "parsed",
                              !.out = parseNotes(codec.raw)]
    /\ UNCHANGED <<storeVars, gen>>

CodecNext == SaveNotes \/ ParseNotes

CodecSpec == CodecInit /\ [][CodecNext]_vars

\* the text is a JSON object: it parses as the structured payload
IsPayloadText(raw) == JSONparse(raw).ok /\ JSONparse(raw).v.t = "obj"

(***************************************************************************)
(* C9: a payload of two arbitrary strings that is encoded and decoded      *)
(* again comes back as it was: decode(encode(p)) = p.                      *)
(***************************************************************************)
C9_RoundTrip ==
    codec.phase = "reparsed" =>
        codec.out = [bruteForce |-> Str(codec.payload.bruteForce),
                     optimized |-> Str(codec.payload.optimized)]

C9_Witness ==
    /\ codec.phase = "reparsed"
    /\ codec.payload.bruteForce = <<"\"", "\\">>
    /\ codec.payload.optimized = JSONstringify([bruteForce |-> <<"a">>, optimized |-> <<>>])

(***************************************************************************)
(* C10: decode of the empty text gives two empty fields, and decode of any *)
(* other text that is not a structured payload (plain text, or JSON that   *)
(* is no object: a number, null, an array) gives the whole text as         *)
(* bruteForce and an empty optimized.                                      *)
(***************************************************************************)
C10_DecodeFallback ==
    codec.phase = "parsed" =>
        IF codec.raw = <<>> THEN codec.out = NoNotes
        ELSE ~IsPayloadText(codec.raw) =>
                 codec.out = [bruteForce |-> Str(codec.raw), optimized |-> Str(<<>>)]

\* the place of review i among the reviews of its item, in creation order
RankOf(rows, i) ==
    Cardinality({j \in ReviewsOf(rows, rows[i].question_id) : j <= i})

(***************************************************************************)
(* C11: in every reachable state each Item owns exactly 6 ScheduledReview  *)
(* rows, every review's itemId is the id of an Item, and an item's due     *)
(* dates in creation order are strictly increasing and are its createdAt   *)
(* plus 1, 4, 10, 22, 46 and 94 days.                                      *)
(***************************************************************************)
C11_ItemsOwnTheirSchedule ==
    /\ \A i \in DOMAIN schedule : schedule[i].question_id \in DOMAIN questions
    /\ \A q \in DOMAIN questions :
          /\ Cardinality(ReviewsOf(schedule, q)) = Len(INTERVALS)
          /\ \A i \in ReviewsOf(schedule, q) :
                DayNumber(ParseDate(schedule[i].due_date))
                    = DayNumber(ParseDate(questions[q].created_at))
                        + CumulativeOffsets[RankOf(schedule, i)]
          /\ \A i, j \in ReviewsOf(schedule, q) :
                i < j => DayNumber(ParseDate(schedule[i].due_date))
                           < DayNumber(ParseDate(schedule[j].due_date))

(***************************************************************************)
(* C12: a ScheduledReview, once created, is never deleted and keeps its    *)
(* id, itemId and dueDate; its completed flag changes only by a            *)
(* toggleReview of its own id. setNotes leaves every ScheduledReview row   *)
(* as it is, and toggleReview leaves every Item row and every other        *)
(* review as they are.                                                     *)
(***************************************************************************)
C12_ReviewFrame ==
    [][ /\ Len(schedule') >= Len(schedule)
        /\ \A i \in DOMAIN schedule :
              /\ schedule'[i].question_id = schedule[i].question_id
              /\ schedule'[i].due_date = schedule[i].due_date
              /\ schedule'[i].completed # schedule[i].completed =>
                    /\ nToggles' = nToggles + 1
                    /\ resp'.op = "toggle"
                    /\ resp'.id = i
        /\ nNotes' = nNotes + 1 => schedule' = schedule
        /\ nToggles' = nToggles + 1 =>
              /\ questions' = questions
              /\ Len(schedule') = Len(schedule)
              /\ \A i \in DOMAIN schedule : i # resp'.id => schedule'[i] = schedule[i]
      ]_vars

C12_Witness ==
    /\ resp.op = "setNotes"
    /\ resp.status = 200
    /\ resp.id \in DOMAIN questions
    /\ questions[resp.id].notes # <<>>
    /\ nToggles = 2
    /\ Cardinality({i \in DOMAIN schedule : schedule[i].completed = 1}) = 2

====
